---- MODULE Spec2Model ----
(***************************************************************************)
(* Channel synchronisation of the import engine: synchronizeChannel and    *)
(* skipImport (server/lib/sync-channel.ts and its second copy, part_001),  *)
(* the youtube-dl wrapper and CLI calls they rest on, and the job queue    *)
(* that runs the submitted job graph. The helpers of the import engine    *)
(* and of the transcode decision (format chain, run, getInfoForDownload,  *)
(* safeGet, the getListInfo merge, canDoQuickAudioTranscode) have their    *)
(* own specifications at the end, one call at a time.                      *)
(*                                                                         *)
(* JavaScript values are records [t |-> kind, ...]: "undefined", "object", *)
(* "array", "value" (a returned value) and "throw" (a rejected promise).   *)
(* An optional value (a Date that may be null, an absent option) is a      *)
(* sequence: <<>> when absent, <<v>> when present.                         *)
(***************************************************************************)
EXTENDS Integers, Sequences, FiniteSets, TLC

\* Bounds of the model.
MaxEntries == 3   \* lines the extraction tool prints for a listing
MaxDay == 1       \* calendar days run from 0 to MaxDay + 1
DayLen == 2       \* clock ticks per calendar day
MaxTime == 2      \* release timestamps and "now" run from 0 to MaxTime

VARIABLES
    call,         \* a helper under study: its name, its arguments and its result
    impl,         \* which copy of synchronizeChannel runs
    channelSync,  \* options.channelSync: the session object, when supplied
    history,      \* states the session has held, the one it arrived in first
    saves,        \* states persisted by channelSync.save() during the run
    onlyAfter,    \* options.onlyAfter
    pc,           \* position of synchronizeChannel
    user,         \* result of UserModel.loadByChannelActorId
    listing,      \* what the listing call saw (kept for the properties)
    entries,      \* candidates returned by getInfoForListImport
    idx,          \* loop position in entries
    decisions,    \* per evaluated candidate: imported (the lookup said so), else
                  \* keep, skip or error as skipImport decided
    last,         \* the evaluation of the most recent candidate
    jobs,         \* the jobs / children array
    submitted,    \* calls of JobQueue.createJobWithChildren
    settled,      \* children of the submitted graph that have settled
    parentRan,    \* the parent finalize job has run
    result,       \* how the call of synchronizeChannel ended
    caught        \* the error the outer catch block received

vars == <<call, impl, channelSync, history, saves, onlyAfter, pc, user, listing, entries, idx,
          decisions, last, jobs, submitted, settled, parentRan, result, caught>>

\* ------------------------------------------------------------------ values

Undefined == [t |-> "undefined"]
Obj(r) == [t |-> "object", v |-> r]
Arr(s) == [t |-> "array", v |-> s]
Val(x) == [t |-> "value", v |-> x]
Throw(e) == [t |-> "throw", e |-> e]

Impls == {"sync-channel.ts", "part_001"}
Users == {"alice", "bob"}
Channel == "channel-1"

SeqsUpTo(S, n) == UNION {[1..k -> S] : k \in 0..n}

\* Math.max and Math.min of a non-empty set
MathMax(S) == CHOOSE m \in S : \A n \in S : n <= m
MathMin(S) == CHOOSE m \in S : \A n \in S : m <= n

\* A text is the sequence of its tokens; parts.join(sep) puts the separator
\* token between the parts, split(sep) cuts at every separator.
RECURSIVE join(_, _)
join(parts, sep) ==
    IF parts = <<>> THEN <<>>
    ELSE IF Len(parts) = 1 THEN parts[1]
    ELSE parts[1] \o <<sep>> \o join(Tail(parts), sep)

RECURSIVE split(_, _)
split(tokens, sep) ==
    LET cuts == {i \in 1..Len(tokens) : tokens[i] = sep} IN
    IF cuts = {} THEN <<tokens>>
    ELSE LET c == MathMin(cuts) IN
         <<SubSeq(tokens, 1, c - 1)>> \o split(SubSeq(tokens, c + 1, Len(tokens)), sep)

\* ------------------------------------------------------- extraction tool

\* Whitespace tokens of a text; every other token is content: a JSON
\* document (the record it denotes) or a run of other characters.
NL == [ws |-> "\n"]
SP == [ws |-> " "]

IsSpace(token) == token \in {NL, SP}

\* String.prototype.trim
RECURSIVE trimStart(_)
trimStart(text) ==
    IF text # <<>> /\ IsSpace(Head(text)) THEN trimStart(Tail(text)) ELSE text

RECURSIVE trimEnd(_)
trimEnd(text) ==
    IF text # <<>> /\ IsSpace(text[Len(text)])
    THEN trimEnd(SubSeq(text, 1, Len(text) - 1)) ELSE text

trim(text) == trimEnd(trimStart(text))

\* enum YoutubeDLCLIRetCode
OKAY == 0

\* How a subprocess ended. A process that ran has an exit code, the text it
\* wrote to stderr and the text of its stdout; one that could not be spawned
\* has no exit code (-1 stands for undefined) and wrote nothing.
NotSpawned == [spawned |-> FALSE, exitCode |-> -1, stderr |-> "", stdout |-> <<>>]

FailedOuts ==
    {[spawned |-> TRUE, exitCode |-> 1, stderr |-> "", stdout |-> <<>>],
     [spawned |-> TRUE, exitCode |-> 1, stderr |-> "ERROR", stdout |-> <<>>],
     [spawned |-> TRUE, exitCode |-> 0, stderr |-> "ERROR", stdout |-> <<>>]}

\* A successful process that printed the given documents, one per line.
OkOut(lines) ==
    [spawned |-> TRUE, exitCode |-> OKAY, stderr |-> "",
     stdout |-> join([i \in 1..Len(lines) |-> <<lines[i]>>], NL)]

\* The options the wrapper passes to every call (part_002): they do not set
\* reject, which execa then takes as true.
processOptions == [reject |-> TRUE]

\* What `await execa(...)` yields: with reject on (the default) the promise
\* is rejected with execa's own error when the process could not be spawned
\* or exited with a non-zero code; otherwise, and always with reject off, it
\* resolves to the result object.
execa(proc, options) ==
    IF options.reject /\ (~proc.spawned \/ proc.exitCode # 0)
    THEN Throw("ExecaError")
    ELSE Obj(proc)

\* An error that carries the exit code or the stderr text in its message.
ThrowWith(e, detail) == [t |-> "throw", e |-> e, detail |-> detail]

\* YoutubeDLCLI.run: proc is how the spawned subprocess ends and output the
\* one value the await yields. The debug log reads output.command before
\* output is tested, so an output that were undefined would raise a TypeError
\* there and not the exec error.
run(proc, options) ==
    CHOOSE outcome \in
        {IF output.t = "throw" THEN output
         ELSE IF output.t = "undefined" THEN Throw("TypeError")
         ELSE IF output.v.exitCode # OKAY
         THEN ThrowWith("YoutubeDLCLIRetCodeError", output.v.exitCode)
         ELSE IF Len(output.v.stderr) > 0
         THEN ThrowWith("YoutubeDLCLICrashError", output.v.stderr)
         ELSE IF output.v.stdout # <<>>
         THEN Arr(split(trim(output.v.stdout), NL))
         ELSE Undefined
         : output \in {execa(proc, options)}} : TRUE

\* JSON.parse of one line: a line that is exactly one document parses to it,
\* any other line (an empty one too) is a SyntaxError.
IsJSON(line) == Len(line) = 1 /\ ~IsSpace(line[1]) /\ "txt" \notin DOMAIN line[1]

\* YoutubeDLCLI.getInfo: data is the one value run yields; every failure of
\* run becomes undefined; one line collapses to a single record, several
\* lines stay a sequence.
getInfo(output) ==
    CHOOSE info \in
        {IF data.t = "throw" THEN Undefined
         ELSE IF data.t = "undefined" THEN Undefined
         ELSE IF \E i \in 1..Len(data.v) : ~IsJSON(data.v[i]) THEN Throw("SyntaxError")
         ELSE IF Len(data.v) = 1 THEN Obj(data.v[1][1])
         ELSE Arr([i \in 1..Len(data.v) |-> data.v[i][1]])
         : data \in {run(output, processOptions)}} : TRUE

\* Array.prototype.find on webpage_url: the first match, <<>> when none.
FindByUrl(flat, url) ==
    LET hits == {i \in 1..Len(flat) : flat[i].webpage_url = url} IN
    IF hits = {} THEN <<>>
    ELSE <<flat[CHOOSE i \in hits : \A j \in hits : i <= j]>>

\* A merge that takes every field of the matching flat item as it is.
mergeItemOverwrite(item, flat) ==
    LET flatItem == FindByUrl(flat, item.webpage_url) IN
    IF flatItem = <<>> THEN item
    ELSE [item EXCEPT !.timestamp = flatItem[1].timestamp,
                      !.release_timestamp = flatItem[1].release_timestamp]

\* The merge of one detailed item with the flat pass (0 stands for an absent
\* timestamp: both compare false against "> 0").
mergeItem(item, flat) ==
    LET flatItem == FindByUrl(flat, item.webpage_url) IN
    [item EXCEPT
        !.timestamp =
            IF flatItem # <<>> /\ flatItem[1].timestamp > 0
            THEN flatItem[1].timestamp ELSE @,
        !.release_timestamp =
            IF flatItem # <<>> /\ flatItem[1].release_timestamp > 0
            THEN flatItem[1].release_timestamp ELSE @]

\* YoutubeDLCLI.getListInfo: ytdlp is the configured release name being
\* 'yt-dlp'; flatOutput and listOutput are the two subprocess results.
getListInfo(ytdlp, flatOutput, listOutput) ==
    LET flatList == IF ytdlp THEN getInfo(flatOutput) ELSE Arr(<<>>)
        list == getInfo(listOutput)
    IN
    IF flatList.t = "throw" THEN flatList
    ELSE IF list.t = "throw" THEN list
    ELSE IF flatList.t = "undefined" THEN Throw("TypeError")     \* flatList.length
    ELSE IF flatList.t = "array" /\ Len(flatList.v) > 0
    THEN IF list.t = "array"
         THEN Arr([i \in 1..Len(list.v) |-> mergeItem(list.v[i], flatList.v)])
         ELSE Throw("TypeError")                             \* list.map
    ELSE list

\* YoutubeDLListBuilder.getList: the canonical form of each listed record.
getList(list) ==
    [i \in 1..Len(list) |->
        [webpageUrl |-> list[i].webpage_url,
         timestamp |-> list[i].timestamp,
         release_timestamp |-> list[i].release_timestamp]]

\* YoutubeDLWrapper.filterUnavailable
filterUnavailable(list, now) ==
    SelectSeq(list, LAMBDA item : ~(item.release_timestamp > now))

\* YoutubeDLWrapper.getInfoForListImport
getInfoForListImport(ytdlp, flatOutput, listOutput, now) ==
    LET list == getListInfo(ytdlp, flatOutput, listOutput) IN
    IF list.t = "throw" THEN list
    ELSE IF list.t = "undefined" THEN Throw("TypeError")    \* list.length
    ELSE IF list.t = "array" /\ Len(list.v) = 0 THEN Throw("Error")
    ELSE IF list.t # "array" THEN Throw("Error")
    ELSE LET filteredList == filterUnavailable(getList(list.v), now) IN
         Arr([i \in 1..Len(filteredList) |-> filteredList[i].webpageUrl])

\* ------------------------------------------------------ single-item detail

\* The raw record of one item: upload_date is the day named by the 8-digit
\* stamp (<<>> when the stamp is missing or malformed), formats the number
\* of entries of the formats array.
OptDays == {<<>>} \cup {<<d>> : d \in 0..(MaxDay + 1)}

RawRecords == [webpage_url : 1..MaxEntries, upload_date : OptDays, formats : {0, 1}]

\* YoutubeDLInfoBuilder.buildOriginallyPublishedAt: local midnight of the
\* stamped day, null without a stamp.
buildOriginallyPublishedAt(obj) ==
    IF obj.upload_date = <<>> THEN <<>>
    ELSE <<obj.upload_date[1] * DayLen>>

\* YoutubeDLInfoBuilder.buildVideoInfo (the fields the synchronisation reads);
\* it sets no isLive field.
buildVideoInfo(obj) ==
    [formats |-> obj.formats,
     originallyPublishedAtWithoutTime |-> buildOriginallyPublishedAt(obj),
     webpageUrl |-> obj.webpage_url,
     isLive |-> "undefined"]

\* YoutubeDLWrapper.getInfoForDownload
getInfoForDownload(output) ==
    LET info == getInfo(output) IN
    IF info.t = "throw" THEN info
    ELSE IF info.t = "undefined" THEN Throw("YoutubeDLNoInfoError")
    ELSE LET serializedInfo == buildVideoInfo(info.v) IN
         IF serializedInfo.isLive = "true" THEN Throw("YoutubeDLIsLiveError")
         ELSE IF serializedInfo.formats = 0 THEN Throw("YoutubeDLNoFormatsError")
         ELSE Val(serializedInfo)

\* Date.setHours(0, 0, 0, 0)
setHoursZero(t) == t - (t % DayLen)

\* The publish date part_001 reads from the fetched info (its
\* originallyPublishedAt field): the date-only publish date.
originallyPublishedAt(videoInfo) == videoInfo.originallyPublishedAtWithoutTime

\* A skipImport that does not return on an already imported URL.
skipImportLibNoReturn(imported, info, floor) ==
    IF imported.t = "throw" THEN imported
    ELSE IF floor # <<>>
    THEN IF info.t = "throw" THEN info
         ELSE IF info.v.originallyPublishedAtWithoutTime = <<>>
         THEN Throw("TypeError")
         ELSE Val(info.v.originallyPublishedAtWithoutTime[1] < setHoursZero(floor[1]))
    ELSE Val(FALSE)

\* skipImport of server/lib/sync-channel.ts. imported is the result of
\* VideoImportModel.urlAlreadyImported, info that of getInfoForDownload.
skipImportLib(imported, info, floor) ==
    IF imported.t = "throw" THEN imported
    ELSE IF imported.v THEN Val(TRUE)
    ELSE IF floor # <<>>
    THEN IF info.t = "throw" THEN info
         ELSE IF info.v.originallyPublishedAtWithoutTime = <<>>
         THEN Throw("TypeError")                             \* null.getTime()
         ELSE Val(info.v.originallyPublishedAtWithoutTime[1] < setHoursZero(floor[1]))
    ELSE Val(FALSE)

\* skipImport of part_001
skipImportPart(imported, info, floor) ==
    IF imported.t = "throw" THEN imported
    ELSE IF imported.v THEN Val(TRUE)
    ELSE IF info.t = "throw" THEN Val(TRUE)
    ELSE IF floor # <<>>
    THEN IF originallyPublishedAt(info.v) = <<>>
         THEN Throw("TypeError")                             \* null.getTime()
         ELSE Val(originallyPublishedAt(info.v)[1] < setHoursZero(floor[1]))
    ELSE Val(FALSE)

\* Whether skipImport reaches its call of getInfoForDownload.
fetchesDetail(imp, imported, floor) ==
    /\ imported.t = "value"
    /\ ~imported.v
    /\ (imp = "part_001" \/ floor # <<>>)

\* ------------------------------------------------------------------ inputs

\* Release timestamps of listed items; 0 is an absent one.
Times == 0..MaxTime

\* Listing lines: line i names URL i. Under yt-dlp the detailed pass prints
\* webpage_url and live_status only, the flat pass adds the timestamps.
ListLine(i, rel) == [webpage_url |-> i, timestamp |-> 0, release_timestamp |-> rel]

TimedListings == {[i \in 1..Len(r) |-> ListLine(i, r[i])] : r \in SeqsUpTo(Times, MaxEntries)}

PlainListings == {[i \in 1..n |-> ListLine(i, 0)] : n \in 0..MaxEntries}

TimedOuts == FailedOuts \cup {OkOut(l) : l \in TimedListings}

PlainOuts == FailedOuts \cup {OkOut(l) : l \in PlainListings}

\* The subprocess results of one single-item detail fetch for a URL.
DetailOuts(url) ==
    FailedOuts \cup {OkOut(<<>>)} \cup
    {OkOut(<<r>>) : r \in {x \in RawRecords : x.webpage_url = url}}

\* options.onlyAfter: absent, or any instant of day MaxDay (publish days run
\* from 0 to MaxDay + 1, so some lie before, on and after the floor's day).
Floors == {<<>>} \cup {<<MaxDay * DayLen + t>> : t \in 0..(DayLen - 1)}

\* The session: absent, or supplied in the state an earlier run left it in.
NoSession == [present |-> FALSE, state |-> "NONE", lastSyncAt |-> FALSE]

Sessions ==
    {NoSession} \cup
    {[present |-> TRUE, state |-> st, lastSyncAt |-> FALSE] : st \in {"PENDING", "SYNCED", "FAILED"}}

\* Results of VideoImportModel.urlAlreadyImported
Lookups == {Val(TRUE), Val(FALSE), Throw("DatabaseError")}

\* The publish date a listed entry carries in part_001 (null or a date).
EntryDates == {<<>>, <<0>>}

NoEval == [url |-> 0, imported |-> "none", fetched |-> "none", pub |-> <<>>, outcome |-> "none"]

Running == [kind |-> "running", err |-> ""]
Returned == [kind |-> "returned", err |-> ""]
Threw(e) == [kind |-> "threw", err |-> e]

\* No helper is under study while synchronizeChannel runs.
NoCall == [fn |-> "none"]

Init ==
    /\ call = NoCall
    /\ impl \in Impls
    /\ channelSync \in Sessions
    /\ onlyAfter \in Floors
    /\ history = IF channelSync.present THEN <<channelSync.state>> ELSE <<>>
    /\ saves = <<>>
    /\ pc = "start"
    /\ user = ""
    /\ listing = [kind |-> "none", lines |-> 0, toolFailed |-> FALSE, returned |-> FALSE]
    /\ entries = <<>>
    /\ idx = 0
    /\ decisions = <<>>
    /\ last = NoEval
    /\ jobs = <<>>
    /\ submitted = <<>>
    /\ settled = [completed |-> 0, failed |-> 0]
    /\ parentRan = FALSE
    /\ result = Running
    /\ caught = ""

\* ----------------------------------------------------- synchronizeChannel

\* A catch block that sets FAILED on the session object and does not save it.
CatchUnsaved(err) ==
    /\ caught' = err
    /\ pc' = "done"
    /\ IF channelSync.present
       THEN /\ channelSync' = [channelSync EXCEPT !.state = "FAILED"]
            /\ history' = Append(history, "FAILED")
            /\ result' = [kind |-> "returned", err |-> ""]
            /\ UNCHANGED saves
       ELSE /\ UNCHANGED <<channelSync, history, saves>>
            /\ result' = [kind |-> "threw", err |-> "TypeError"]

\* The outer catch block: it writes to channelSync whether or not one was
\* supplied, so without a session the handler itself throws a TypeError.
Catch(err) ==
    /\ caught' = err
    /\ pc' = "done"
    /\ IF channelSync.present
       THEN /\ channelSync' = [channelSync EXCEPT !.state = "FAILED"]
            /\ history' = Append(history, "FAILED")
            /\ saves' = Append(saves, "FAILED")
            /\ result' = Returned
       ELSE /\ UNCHANGED <<channelSync, history, saves>>
            /\ result' = Threw("TypeError")

\* A start that sets PROCESSING and stamps the session without saving it.
MarkProcessingUnsaved ==
    /\ pc = "start"
    /\ pc' = "loadUser"
    /\ IF channelSync.present
       THEN /\ channelSync' = [channelSync EXCEPT !.state = "PROCESSING", !.lastSyncAt = TRUE]
            /\ history' = Append(history, "PROCESSING")
            /\ UNCHANGED saves
       ELSE UNCHANGED <<channelSync, history, saves>>
    /\ UNCHANGED <<call, impl, onlyAfter, user, listing, entries, idx, decisions, last,
                   jobs, submitted, settled, parentRan, result, caught>>

\* A start that stamps the session and leaves its state as it was.
MarkProcessingStampOnly ==
    /\ pc = "start"
    /\ pc' = "loadUser"
    /\ IF channelSync.present
       THEN /\ channelSync' = [channelSync EXCEPT !.lastSyncAt = TRUE]
            /\ saves' = Append(saves, channelSync.state)
            /\ UNCHANGED history
       ELSE UNCHANGED <<channelSync, history, saves>>
    /\ UNCHANGED <<call, impl, onlyAfter, user, listing, entries, idx, decisions, last,
                   jobs, submitted, settled, parentRan, result, caught>>

\* if (channelSync) { state = PROCESSING; lastSyncAt = new Date(); save() }
MarkProcessing ==
    /\ pc = "start"
    /\ pc' = "loadUser"
    /\ IF channelSync.present
       THEN /\ channelSync' = [channelSync EXCEPT !.state = "PROCESSING", !.lastSyncAt = TRUE]
            /\ history' = Append(history, "PROCESSING")
            /\ saves' = Append(saves, "PROCESSING")
       ELSE UNCHANGED <<channelSync, history, saves>>
    /\ UNCHANGED <<call, impl, onlyAfter, user, listing, entries, idx, decisions, last,
                   jobs, submitted, settled, parentRan, result, caught>>

\* const user = await UserModel.loadByChannelActorId(channel.actorId)
LoadUser ==
    /\ pc = "loadUser"
    /\ \E r \in {Val(u) : u \in Users} \cup {Throw("DatabaseError")} :
        IF r.t = "throw"
        THEN /\ Catch(r.e)
             /\ UNCHANGED user
        ELSE /\ user' = r.v
             /\ pc' = "list"
             /\ UNCHANGED <<channelSync, history, saves, result, caught>>
    /\ UNCHANGED <<call, impl, onlyAfter, listing, entries, idx, decisions, last,
                   jobs, submitted, settled, parentRan>>

\* A zero-candidate branch that returns without touching the session.
ReturnUnmarked ==
    /\ pc' = "done"
    /\ result' = [kind |-> "returned", err |-> ""]
    /\ UNCHANGED <<channelSync, history, saves, caught>>

\* The zero-candidate branch: mark the session SYNCED and return.
ReturnSynced ==
    /\ pc' = "done"
    /\ result' = Returned
    /\ IF channelSync.present
       THEN /\ channelSync' = [channelSync EXCEPT !.state = "SYNCED"]
            /\ history' = Append(history, "SYNCED")
            /\ saves' = Append(saves, "SYNCED")
       ELSE UNCHANGED <<channelSync, history, saves>>
    /\ UNCHANGED caught

\* await youtubeDL.getInfoForListImport(...) and the zero-candidate test
FetchList ==
    /\ pc = "list"
    /\ \E ytdlp \in BOOLEAN, now \in 1..MaxTime :
       \E listOutput \in (IF ytdlp THEN PlainOuts ELSE TimedOuts) :
       \E flatOutput \in (IF ytdlp THEN TimedOuts ELSE {OkOut(<<>>)}) :
        LET targetUrls == getInfoForListImport(ytdlp, flatOutput, listOutput, now) IN
        /\ listing' = [kind |-> getInfo(listOutput).t,
                       lines |-> Len(split(listOutput.stdout, NL)) - (IF listOutput.stdout = <<>> THEN 1 ELSE 0),
                       toolFailed |-> run(listOutput, processOptions).t = "throw"
                                      \/ (ytdlp /\ run(flatOutput, processOptions).t = "throw"),
                       returned |-> targetUrls.t # "throw"]
        /\ IF targetUrls.t = "throw"
           THEN /\ Catch(targetUrls.e)
                /\ UNCHANGED <<entries, idx>>
           ELSE /\ entries' = targetUrls.v
                /\ IF Len(targetUrls.v) = 0
                   THEN /\ ReturnSynced
                        /\ UNCHANGED idx
                   ELSE /\ pc' = "loop"
                        /\ idx' = 1
                        /\ UNCHANGED <<channelSync, history, saves, result, caught>>
    /\ UNCHANGED <<call, impl, onlyAfter, user, decisions, last, jobs, submitted,
                   settled, parentRan>>

\* An import job built without the privacy override.
importJobNoPrivacy(imp, u, targetUrl, session, entryDate) ==
    [type |-> "video-import",
     user |-> u,
     channel |-> Channel,
     targetUrl |-> targetUrl,
     channelSync |-> session.present,
     privacy |-> "DEFAULT",
     originallyPublishedAt |-> IF imp = "part_001" THEN entryDate ELSE <<>>]

\* The arguments of buildYoutubeDLImport, which become the import job.
\* entryDate is the listed entry's publish date, which only part_001 passes on.
importJob(imp, u, targetUrl, session, entryDate) ==
    [type |-> "video-import",
     user |-> u,
     channel |-> Channel,
     targetUrl |-> targetUrl,
     channelSync |-> session.present,
     privacy |-> "PUBLIC",
     originallyPublishedAt |-> IF imp = "part_001" THEN entryDate ELSE <<>>]

skipImport(imp, imported, info, floor) ==
    IF imp = "part_001"
    THEN skipImportPart(imported, info, floor)
    ELSE skipImportLib(imported, info, floor)

\* Whether an exception of skipImport is caught inside the loop: the loop of
\* sync-channel.ts wraps the call in try/catch and continues, that of
\* part_001 does not.
loopCatches(imp) == imp = "sync-channel.ts"

\* What the evaluation of one candidate is recorded as.
evaluation(url, imported, fetches, info, shouldSkip) ==
    [url |-> url,
     imported |-> IF imported.t = "throw" THEN "throws"
                  ELSE IF imported.v THEN "yes" ELSE "no",
     fetched |-> IF ~fetches THEN "none"
                 ELSE IF info.t = "throw" THEN "fail" ELSE "ok",
     pub |-> IF fetches /\ info.t = "value"
             THEN info.v.originallyPublishedAtWithoutTime ELSE <<>>,
     outcome |-> IF imported.t = "value" /\ imported.v THEN "imported"
                 ELSE IF shouldSkip.t = "throw" THEN "error"
                 ELSE IF shouldSkip.v THEN "skip"
                 ELSE "keep"]

\* One iteration of the candidate loop: skipImport, then buildYoutubeDLImport
\* and the push for a kept candidate.
EvalCandidate ==
    /\ pc = "loop"
    /\ idx <= Len(entries)
    /\ \E imported \in Lookups, output \in DetailOuts(entries[idx]),
          built \in BOOLEAN, entryDate \in EntryDates :
        LET targetUrl == entries[idx]
            fetches == fetchesDetail(impl, imported, onlyAfter)
            info == IF fetches THEN getInfoForDownload(output) ELSE Undefined
            shouldSkip == skipImport(impl, imported, info, onlyAfter)
            ev == evaluation(targetUrl, imported, fetches, info, shouldSkip)
        IN
        /\ last' = ev
        /\ decisions' = Append(decisions, ev.outcome)
        /\ IF shouldSkip.t = "throw"
           THEN IF loopCatches(impl)
                THEN /\ idx' = idx + 1
                     /\ UNCHANGED <<jobs, pc, channelSync, history, saves, result, caught>>
                ELSE /\ Catch(shouldSkip.e)
                     /\ UNCHANGED <<jobs, idx>>
           ELSE IF shouldSkip.v
           THEN /\ idx' = idx + 1
                /\ UNCHANGED <<jobs, pc, channelSync, history, saves, result, caught>>
           ELSE IF built
           THEN /\ jobs' = Append(jobs, importJob(impl, user, targetUrl, channelSync, entryDate))
                /\ idx' = idx + 1
                /\ UNCHANGED <<pc, channelSync, history, saves, result, caught>>
           ELSE /\ Catch("ImportBuildError")
                /\ UNCHANGED <<jobs, idx>>
    /\ UNCHANGED <<call, impl, onlyAfter, user, listing, entries, submitted, settled, parentRan>>

\* Whether the run returns without a job graph once the loop has ended:
\* sync-channel.ts returns when no job was built, part_001 never does.
returnsWithoutGraph(imp, children) == imp = "sync-channel.ts" /\ Len(children) = 0

\* The parent job of the graph.
parentJob(session) ==
    [type |-> "after-video-channel-import", channelSyncId |-> session.present]

\* A submission that marks the session SYNCED itself once the queue accepts.
SubmitMarksSynced ==
    /\ pc = "loop"
    /\ idx > Len(entries)
    /\ IF impl = "sync-channel.ts" /\ Len(jobs) = 0
       THEN /\ pc' = "done"
            /\ result' = [kind |-> "returned", err |-> ""]
            /\ UNCHANGED <<channelSync, history, saves, caught, submitted>>
       ELSE \E accepted \in BOOLEAN :
            IF accepted
            THEN /\ submitted' = Append(submitted,
                        [parent |-> [type |-> "after-video-channel-import",
                                     channelSyncId |-> channelSync.present],
                         children |-> jobs])
                 /\ pc' = "done"
                 /\ result' = [kind |-> "returned", err |-> ""]
                 /\ UNCHANGED caught
                 /\ IF channelSync.present
                    THEN /\ channelSync' = [channelSync EXCEPT !.state = "SYNCED"]
                         /\ history' = Append(history, "SYNCED")
                         /\ saves' = Append(saves, "SYNCED")
                    ELSE UNCHANGED <<channelSync, history, saves>>
            ELSE /\ caught' = "QueueError"
                 /\ pc' = "done"
                 /\ result' = [kind |-> "returned", err |-> ""]
                 /\ UNCHANGED <<channelSync, history, saves, submitted>>
    /\ UNCHANGED <<call, impl, onlyAfter, user, listing, entries, idx, decisions, last,
                   jobs, settled, parentRan>>

\* After the loop: the early return of sync-channel.ts, or
\* await JobQueue.Instance.createJobWithChildren(parent, jobs), after which
\* the function returns.
Submit ==
    /\ pc = "loop"
    /\ idx > Len(entries)
    /\ IF returnsWithoutGraph(impl, jobs)
       THEN /\ pc' = "done"
            /\ result' = Returned
            /\ UNCHANGED <<channelSync, history, saves, caught, submitted>>
       ELSE \E accepted \in BOOLEAN :
            IF accepted
            THEN /\ submitted' = Append(submitted, [parent |-> parentJob(channelSync), children |-> jobs])
                 /\ pc' = "done"
                 /\ result' = Returned
                 /\ UNCHANGED <<channelSync, history, saves, caught>>
            ELSE /\ Catch("QueueError")
                 /\ UNCHANGED submitted
    /\ UNCHANGED <<call, impl, onlyAfter, user, listing, entries, idx, decisions, last,
                   jobs, settled, parentRan>>

\* --------------------------------------------------------------- job queue

\* A child import job of the submitted graph settles, successfully or not.
SettleChild ==
    /\ submitted # <<>>
    /\ settled.completed + settled.failed < Len(submitted[1].children)
    /\ \E ok \in BOOLEAN :
        settled' = IF ok THEN [settled EXCEPT !.completed = @ + 1]
                   ELSE [settled EXCEPT !.failed = @ + 1]
    /\ UNCHANGED <<call, impl, channelSync, history, saves, onlyAfter, pc, user, listing, entries,
                   idx, decisions, last, jobs, submitted, parentRan, result, caught>>

\* When the queue lets the parent run: once every child has settled.
parentReady(graph, done) == done.completed + done.failed = Len(graph.children)

\* The parent finalize job runs and sets the session SYNCED.
RunParent ==
    /\ submitted # <<>>
    /\ ~parentRan
    /\ parentReady(submitted[1], settled)
    /\ parentRan' = TRUE
    /\ IF submitted[1].parent.channelSyncId
       THEN /\ channelSync' = [channelSync EXCEPT !.state = "SYNCED"]
            /\ history' = Append(history, "SYNCED")
            /\ saves' = Append(saves, "SYNCED")
       ELSE UNCHANGED <<channelSync, history, saves>>
    /\ UNCHANGED <<call, impl, onlyAfter, pc, user, listing, entries, idx, decisions,
                   last, jobs, submitted, settled, result, caught>>

Next ==
    \/ MarkProcessing
    \/ LoadUser
    \/ FetchList
    \/ EvalCandidate
    \/ Submit
    \/ SettleChild
    \/ RunParent

Spec == Init /\ [][Next]_vars

\* ------------------------------------------------------------- properties

Finished == pc = "done"

\* Every candidate of a non-empty list has been evaluated and none was kept.
AllSkipped ==
    /\ Len(entries) >= 1
    /\ Len(decisions) = Len(entries)
    /\ \A i \in 1..Len(decisions) : decisions[i] # "keep"

\* The URLs of the kept candidates, in candidate order.
RECURSIVE KeptFrom(_)
KeptFrom(i) ==
    IF i > Len(decisions) THEN <<>>
    ELSE IF decisions[i] = "keep" THEN <<entries[i]>> \o KeptFrom(i + 1)
    ELSE KeptFrom(i + 1)

KeptUrls == KeptFrom(1)

CountOf(outcome) == Cardinality({i \in 1..Len(decisions) : decisions[i] = outcome})

\* C1: when the listing returns at least one candidate and every candidate
\* is skipped, a run that ends without an exception has called
\* createJobWithChildren once, with the finalize parent and no children.
C1_AllSkippedStillSubmitsParent ==
    (Finished /\ caught = "" /\ channelSync.present /\ AllSkipped) =>
        /\ Len(submitted) = 1
        /\ submitted[1].parent.type = "after-video-channel-import"
        /\ submitted[1].children = <<>>

\* Errors that only skipImport raises into the outer catch block.
SkipImportErrors == {"DatabaseError", "TypeError", "YoutubeDLNoInfoError",
                     "YoutubeDLNoFormatsError", "YoutubeDLIsLiveError"}

\* C2: a candidate whose skip decision throws is skipped alone: the run is
\* not ended by it and the session not set FAILED for it; with three
\* candidates, one throwing and two kept, a run that ends without an
\* exception has submitted the parent with exactly two children.
C2_ThrowingCandidateSkippedAlone ==
    /\ \A i \in 1..Len(decisions) :
        decisions[i] = "error" =>
            ~(Finished /\ Len(decisions) = i /\ caught \in SkipImportErrors)
    /\ (Finished /\ caught = "" /\ Len(entries) = 3 /\ Len(decisions) = 3
        /\ CountOf("error") = 1 /\ CountOf("keep") = 2) =>
            /\ Len(submitted) = 1
            /\ Len(submitted[1].children) = 2

\* C3: with a session supplied, once an exception has reached the outer
\* catch block the run has finished with the session FAILED and that state
\* saved last.
C3_ExceptionMarksFailed ==
    (channelSync.present /\ caught # "") =>
        /\ Finished
        /\ channelSync.state = "FAILED"
        /\ saves # <<>>
        /\ saves[Len(saves)] = "FAILED"
        /\ history[Len(history)] = "FAILED"

\* C3 witness: the queue refused the job graph of a run with a session, which
\* was PROCESSING, and the session is FAILED and saved.
C3_Witness ==
    /\ channelSync.present
    /\ caught = "QueueError"
    /\ Len(jobs) >= 1
    /\ history[Len(history) - 1] = "PROCESSING"
    /\ channelSync.state = "FAILED"
    /\ saves = <<"PROCESSING", "FAILED">>

\* getInfoForListImport returned a list and it holds no candidate.
ZeroCandidates == listing.returned /\ entries = <<>>

\* The extraction tool ran without failure and printed no line at all.
EmptyToolListing == listing.kind # "none" /\ ~listing.toolFailed /\ listing.lines = 0

\* C4 as stated: whenever candidate resolution yields zero entries, be it
\* that the tool's listing is itself empty or that every listed entry is
\* filtered out, a supplied session ends SYNCED and saved, the call returns
\* normally, and the session is not FAILED.
C4_ZeroCandidatesNeverFail ==
    (channelSync.present /\ Finished /\ (ZeroCandidates \/ EmptyToolListing)) =>
        /\ channelSync.state = "SYNCED"
        /\ saves = <<"PROCESSING", "SYNCED">>
        /\ result = Returned
        /\ caught = ""

\* C4 amended: when getInfoForListImport returns a list from which every
\* listed entry was filtered out, the run has finished normally with a
\* supplied session SYNCED and saved and never FAILED; a tool listing that
\* is itself empty makes getInfoForListImport throw, and a supplied session
\* ends FAILED.
C4_FilteredOutSyncedEmptyListingFails ==
    /\ ZeroCandidates =>
        /\ Finished
        /\ result = Returned
        /\ caught = ""
        /\ listing.lines >= 2
        /\ channelSync.present =>
            /\ channelSync.state = "SYNCED"
            /\ saves = <<"PROCESSING", "SYNCED">>
    /\ EmptyToolListing =>
        /\ ~listing.returned
        /\ Finished
        /\ caught = "TypeError"
        /\ channelSync.present =>
            /\ channelSync.state = "FAILED"
            /\ saves = <<"PROCESSING", "FAILED">>

\* C4 witness: three listed entries, all filtered out, session SYNCED.
C4_Witness ==
    /\ ZeroCandidates
    /\ listing.lines = 3
    /\ channelSync.present
    /\ channelSync.state = "SYNCED"
    /\ saves = <<"PROCESSING", "SYNCED">>

\* C5 as stated: a run with zero candidates takes a PENDING session through
\* PENDING, PROCESSING, SYNCED and submits exactly one job, the parent
\* finalize job with no children.
C5_ZeroCandidatesSubmitParentOnly ==
    (ZeroCandidates /\ channelSync.present /\ history[1] = "PENDING") =>
        /\ history = <<"PENDING", "PROCESSING", "SYNCED">>
        /\ Len(submitted) = 1
        /\ submitted[1].parent.type = "after-video-channel-import"
        /\ submitted[1].children = <<>>

\* C5 amended: a run with zero candidates takes a PENDING session through
\* PENDING, PROCESSING, SYNCED in that order and submits no job at all:
\* createJobWithChildren is not called, and no parent job ever runs.
C5_ZeroCandidatesSubmitNothing ==
    (ZeroCandidates /\ channelSync.present /\ history[1] = "PENDING") =>
        /\ history = <<"PENDING", "PROCESSING", "SYNCED">>
        /\ saves = <<"PROCESSING", "SYNCED">>
        /\ submitted = <<>>
        /\ jobs = <<>>
        /\ ~parentRan

\* C5 witness: a finished zero-candidate run of a session that was PENDING.
C5_Witness ==
    /\ ZeroCandidates
    /\ Finished
    /\ channelSync.present
    /\ history = <<"PENDING", "PROCESSING", "SYNCED">>
    /\ submitted = <<>>

\* The listing fetch failed: getInfoForListImport threw.
ListingFetchFailed == listing.kind # "none" /\ ~listing.returned

\* C6: a failure of the listing fetch or of the job-graph submission reaches
\* the caller as that same error; with a session the session is FAILED as
\* well, without one no session write is attempted.
C6_FailurePropagatesToCaller ==
    (Finished /\ (ListingFetchFailed \/ caught = "QueueError")) =>
        /\ result = Threw(caught)
        /\ channelSync.present => channelSync.state = "FAILED"
        /\ ~channelSync.present => saves = <<>>

\* C7: createJobWithChildren is called at most once, and only after every
\* candidate has been decided and every kept candidate's job built; its
\* children are one job per kept candidate, in candidate order, each with the
\* run's channel, the acting user, that candidate's URL, the session
\* reference and privacy PUBLIC; nothing reaches the queue before that call.
C7_SingleSubmissionAfterAllJobsBuilt ==
    /\ Len(submitted) <= 1
    /\ ~Finished =>
        /\ submitted = <<>>
        /\ settled.completed + settled.failed = 0
        /\ ~parentRan
    /\ submitted # <<>> =>
        LET children == submitted[1].children IN
        /\ Len(decisions) = Len(entries)
        /\ idx = Len(entries) + 1
        /\ submitted[1].parent.type = "after-video-channel-import"
        /\ Len(children) = Len(KeptUrls)
        /\ \A k \in 1..Len(children) :
            /\ children[k].type = "video-import"
            /\ children[k].targetUrl = KeptUrls[k]
            /\ children[k].channel = Channel
            /\ children[k].user = user
            /\ user \in Users
            /\ children[k].channelSync = channelSync.present
            /\ children[k].privacy = "PUBLIC"

\* C7 witness: three candidates, the second one skipped, and the graph
\* submitted with the jobs of the first and the third, in that order.
C7_Witness ==
    /\ Len(submitted) = 1
    /\ Len(entries) = 3
    /\ decisions[1] = "keep" /\ decisions[2] # "keep" /\ decisions[3] = "keep"
    /\ Len(submitted[1].children) = 2
    /\ submitted[1].children[1].targetUrl = entries[1]
    /\ submitted[1].children[2].targetUrl = entries[3]

\* C8: once a job graph is submitted, a supplied session stays PROCESSING
\* (synchronizeChannel has saved nothing after PROCESSING) until the parent
\* finalize job runs, and it is SYNCED only when the parent has run, which is
\* only when every child has settled, however many of them failed.
C8_SyncedOnlyByParentAfterChildren ==
    (submitted # <<>> /\ channelSync.present) =>
        /\ result = Returned
        /\ ~parentRan =>
            /\ channelSync.state = "PROCESSING"
            /\ saves = <<"PROCESSING">>
        /\ channelSync.state = "SYNCED" =>
            /\ parentRan
            /\ settled.completed + settled.failed = Len(submitted[1].children)

\* C8 witness: a graph of at least two children, one of them failed and one
\* still unsettled, and the session PROCESSING after the call returned.
C8_Witness ==
    /\ submitted # <<>>
    /\ channelSync.present
    /\ result = Returned
    /\ Len(submitted[1].children) >= 2
    /\ settled.failed >= 1
    /\ settled.completed + settled.failed < Len(submitted[1].children)
    /\ channelSync.state = "PROCESSING"

\* C9: no job is built or submitted for a candidate whose URL the lookup
\* reported as already imported; a run whose candidates are all already
\* imported submits no child.
C9_ImportedNeverQueued ==
    /\ \A i \in 1..Len(decisions) :
        decisions[i] = "imported" =>
            /\ \A k \in 1..Len(jobs) : jobs[k].targetUrl # entries[i]
            /\ submitted # <<>> =>
                \A k \in 1..Len(submitted[1].children) :
                    submitted[1].children[k].targetUrl # entries[i]
    /\ (Len(decisions) >= 1 /\ \A i \in 1..Len(decisions) : decisions[i] = "imported") =>
        /\ jobs = <<>>
        /\ submitted # <<>> => submitted[1].children = <<>>

\* C9 witness: the first candidate was already imported, every other one was
\* kept, and the graph was submitted without a job for the first.
C9_Witness ==
    /\ submitted # <<>>
    /\ Len(decisions) >= 2
    /\ decisions[1] = "imported"
    /\ Len(submitted[1].children) = Len(decisions) - 1

\* C10: with a floor given, a candidate that is not yet imported and whose
\* detail fetch succeeded is skipped exactly when its publish day lies before
\* the floor's day, and evaluating it raises no error, its publish date
\* being present or not.
C10_DateFilterExactAndTotal ==
    (onlyAfter # <<>> /\ last.imported = "no" /\ last.fetched = "ok") =>
        /\ last.outcome \in {"keep", "skip"}
        /\ last.outcome = "skip" <=>
            (last.pub # <<>> /\ last.pub[1] \div DayLen < onlyAfter[1] \div DayLen)

\* C11: with a session supplied, the first effect of the run is the save of
\* PROCESSING with lastSyncAt stamped, before the user lookup and before any
\* extraction call; at most one further state is persisted afterwards, and it
\* is SYNCED or FAILED; without a session a run that does not fail writes
\* and saves nothing.
C11_ProcessingFirstThenOneFinalState ==
    /\ pc = "start" => (saves = <<>> /\ user = "" /\ listing.kind = "none")
    /\ (channelSync.present /\ pc # "start") =>
        /\ Len(saves) \in {1, 2}
        /\ saves[1] = "PROCESSING"
        /\ channelSync.lastSyncAt
        /\ Len(saves) = 2 => saves[2] \in {"SYNCED", "FAILED"}
        /\ channelSync.state = saves[Len(saves)]
    /\ (~channelSync.present /\ result.kind # "threw") =>
        /\ saves = <<>>
        /\ channelSync = NoSession

\* C11 witness: a session that arrived SYNCED was saved as PROCESSING while
\* neither the lookup nor the listing had started, and the run has since
\* persisted FAILED.
C11_Witness ==
    /\ channelSync.present
    /\ history = <<"SYNCED", "PROCESSING", "FAILED">>
    /\ saves = <<"PROCESSING", "FAILED">>
    /\ listing.kind # "none"

\* ------------------------------------------------------ helpers on their own

\* The helpers below are studied one call at a time: call holds the helper's
\* name, its arguments and, once it has been applied, its result, while
\* synchronizeChannel is not running.
syncVars == <<impl, channelSync, history, saves, onlyAfter, pc, user, listing, entries,
              idx, decisions, last, jobs, submitted, settled, parentRan, result, caught>>

SyncIdle ==
    /\ impl = "sync-channel.ts"
    /\ channelSync = NoSession
    /\ onlyAfter = <<>>
    /\ history = <<>>
    /\ saves = <<>>
    /\ pc = "idle"
    /\ user = ""
    /\ listing = [kind |-> "none", lines |-> 0, toolFailed |-> FALSE, returned |-> FALSE]
    /\ entries = <<>>
    /\ idx = 0
    /\ decisions = <<>>
    /\ last = NoEval
    /\ jobs = <<>>
    /\ submitted = <<>>
    /\ settled = [completed |-> 0, failed |-> 0]
    /\ parentRan = FALSE
    /\ result = Running
    /\ caught = ""

\* The result of a helper that has not been applied yet.
Pending == [t |-> "pending"]

\* ------------------------------------------- getYoutubeDLVideoFormat

\* The values of VideoResolution, lowest first (0 is audio only), and how many
\* of them the configuration may enable.
VideoResolutions == <<0, 144, 240, 360, 480, 720, 1080, 1440, 2160>>
MaxResolutions == 7
H_1080P == 1080

EnabledResolutionSets == SUBSET {VideoResolutions[i] : i \in 1..MaxResolutions}

\* `[height=${resolution}]` and `[height<=${resolution}]`
heightFilter(op, resolution) == "[height" \o op \o ToString(resolution) \o "]"

\* The four selectors appended in every mode.
universalFormats ==
    << <<"bestvideo", "[vcodec!*=av01]", "[vcodec!*=vp9.2]", "+", "bestaudio">>,
       <<"best", "[vcodec!*=av01]", "[vcodec!*=vp9.2]">>,
       <<"bestvideo", "[ext=mp4]", "+", "bestaudio", "[ext=m4a]">>,
       <<"best">> >>

\* The three resolution-bound selectors (cases #1, #2 and #3).
resolutionFormats(resolution) ==
    << <<"bestvideo", "[vcodec^=avc1]", heightFilter("=", resolution), "+", "bestaudio", "[ext=m4a]">>,
       <<"bestvideo", "[vcodec!*=av01]", "[vcodec!*=vp9.2]", heightFilter("=", resolution), "+", "bestaudio">>,
       <<"bestvideo", "[vcodec^=avc1]", heightFilter("<=", resolution), "+", "bestaudio", "[ext=m4a]">> >>

\* A format chain that aims at the lowest enabled resolution.
getYoutubeDLVideoFormatLowest(enabledResolutions, useBestFormat) ==
    LET resolution == IF enabledResolutions = {} THEN H_1080P
                      ELSE MathMin(enabledResolutions)
        tiers == IF ~useBestFormat THEN resolutionFormats(resolution) ELSE <<>>
    IN join(tiers \o universalFormats, "/")

\* YoutubeDLCLI.getYoutubeDLVideoFormat
getYoutubeDLVideoFormat(enabledResolutions, useBestFormat) ==
    LET resolution == IF enabledResolutions = {} THEN H_1080P
                      ELSE MathMax(enabledResolutions)
        tiers == IF ~useBestFormat THEN resolutionFormats(resolution) ELSE <<>>
    IN join(tiers \o universalFormats, "/")

FormatInit ==
    /\ SyncIdle
    /\ call \in [fn : {"getYoutubeDLVideoFormat"},
                 enabledResolutions : EnabledResolutionSets,
                 useBestFormat : BOOLEAN,
                 out : {Pending}]

ApplyFormat ==
    /\ call.fn = "getYoutubeDLVideoFormat"
    /\ call.out = Pending
    /\ call' = [call EXCEPT !.out = Val(getYoutubeDLVideoFormat(call.enabledResolutions,
                                                                call.useBestFormat))]
    /\ UNCHANGED syncVars

FormatNext == ApplyFormat

FormatSpec == FormatInit /\ [][FormatNext]_vars

FormatDone == call.fn = "getYoutubeDLVideoFormat" /\ call.out # Pending

\* The selectors of the emitted chain, in order.
Tiers == split(call.out.v, "/")

Has(tier, token) == \E i \in 1..Len(tier) : tier[i] = token

\* C12: the chain is, in this order, the three selectors bound to R (exact R
\* with avc1 and m4a audio; exact R without AV1 and VP9.2; at most R with
\* avc1 and m4a audio) unless best-format is asked for, then the four
\* universal selectors; R is the highest enabled resolution, 1080 for the
\* empty set; so 7 selectors, or 4 in best-format mode whatever is enabled.
C12_FormatChainFixedOrder ==
    FormatDone =>
        LET R == IF call.enabledResolutions = {} THEN 1080
                 ELSE CHOOSE m \in call.enabledResolutions :
                        \A n \in call.enabledResolutions : n <= m
            n == Len(Tiers)
        IN
        /\ n = IF call.useBestFormat THEN 4 ELSE 7
        /\ Tiers[n - 3] = <<"bestvideo", "[vcodec!*=av01]", "[vcodec!*=vp9.2]", "+", "bestaudio">>
        /\ Tiers[n - 2] = <<"best", "[vcodec!*=av01]", "[vcodec!*=vp9.2]">>
        /\ Tiers[n - 1] = <<"bestvideo", "[ext=mp4]", "+", "bestaudio", "[ext=m4a]">>
        /\ Tiers[n] = <<"best">>
        /\ ~call.useBestFormat =>
            /\ Tiers[1] = <<"bestvideo", "[vcodec^=avc1]", "[height=" \o ToString(R) \o "]",
                            "+", "bestaudio", "[ext=m4a]">>
            /\ Tiers[2] = <<"bestvideo", "[vcodec!*=av01]", "[vcodec!*=vp9.2]",
                            "[height=" \o ToString(R) \o "]", "+", "bestaudio">>
            /\ Tiers[3] = <<"bestvideo", "[vcodec^=avc1]", "[height<=" \o ToString(R) \o "]",
                            "+", "bestaudio", "[ext=m4a]">>

\* C12 witness: 240 and 720 enabled, best-format off: seven selectors, the
\* first bound to exactly 720.
C12_Witness ==
    /\ FormatDone
    /\ call.enabledResolutions = {240, 720}
    /\ ~call.useBestFormat
    /\ Len(Tiers) = 7
    /\ Has(Tiers[1], "[height=720]")

\* C13: every selector of the chain either restricts the video codec to avc1
\* or excludes both av01 and vp9.2.
C13_EveryTierExcludesAv1AndVp92 ==
    FormatDone =>
        \A k \in 1..Len(Tiers) :
            \/ Has(Tiers[k], "[vcodec^=avc1]")
            \/ (Has(Tiers[k], "[vcodec!*=av01]") /\ Has(Tiers[k], "[vcodec!*=vp9.2]"))

\* ----------------------------------------------------- YoutubeDLCLI.run

\* The longest stdout text studied, in tokens.
MaxChars == 4

\* Content tokens of a text that is not JSON: some characters, and the
\* prefix getSubs looks for ('[info] Writing video subtitles to: ').
TXT == [txt |-> "a"]
skipString == [txt |-> "[info] Writing video subtitles to: "]

Stdouts == SeqsUpTo({NL, SP, TXT, skipString}, MaxChars)

\* Every way the subprocess can end.
ProcessEnds ==
    {NotSpawned} \cup
    [spawned : {TRUE}, exitCode : {OKAY, 1, 2}, stderr : {"", "ERROR"}, stdout : Stdouts]

\* execa.NodeOptions as far as run depends on them.
ProcessOptions == [reject : BOOLEAN]

\* YoutubeDLCLI.getSubs: run is awaited outside any try block, data.length
\* is read at once, and every line that starts with skipString yields the
\* rest of the line.
getSubs(proc, options) ==
    LET data == run(proc, options) IN
    IF data.t = "throw" THEN data
    ELSE IF data.t = "undefined" THEN Throw("TypeError")
    ELSE LET hits == SelectSeq(data.v, LAMBDA line : line # <<>> /\ line[1] = skipString) IN
         Arr([i \in 1..Len(hits) |-> Tail(hits[i])])

RunInit ==
    /\ SyncIdle
    /\ call \in [fn : {"run", "getSubs"}, proc : ProcessEnds,
                 options : ProcessOptions, out : {Pending}]

ApplyRun ==
    /\ call.fn = "run"
    /\ call.out = Pending
    /\ call' = [call EXCEPT !.out = run(call.proc, call.options)]
    /\ UNCHANGED syncVars

ApplyGetSubs ==
    /\ call.fn = "getSubs"
    /\ call.out = Pending
    /\ call' = [call EXCEPT !.out = getSubs(call.proc, call.options)]
    /\ UNCHANGED syncVars

RunNext ==
    \/ ApplyRun
    \/ ApplyGetSubs

RunSpec == RunInit /\ [][RunNext]_vars

\* A call of run, with the options every caller in the sources passes, has
\* ended.
RunDone == call.fn = "run" /\ call.out # Pending /\ call.options = processOptions

\* C14: the outcome of run is decided by the finished process alone: exit
\* code 0 with empty stderr is the only success, a non-zero exit code gives
\* YoutubeDLCLIRetCodeError with that code whatever stderr holds, and exit
\* code 0 with text on stderr gives YoutubeDLCLICrashError with that text.
C14_OutcomeClassifiesProcessResult ==
    (RunDone /\ call.proc.spawned) =>
        /\ call.out.t # "throw" <=> (call.proc.exitCode = 0 /\ call.proc.stderr = "")
        /\ call.proc.exitCode # 0 =>
            call.out = ThrowWith("YoutubeDLCLIRetCodeError", call.proc.exitCode)
        /\ (call.proc.exitCode = 0 /\ call.proc.stderr # "") =>
            call.out = ThrowWith("YoutubeDLCLICrashError", call.proc.stderr)

\* C15: when the subprocess could not be spawned, run fails with
\* YoutubeDLCLIExecError.
C15_SpawnFailureGivesExecError ==
    (RunDone /\ ~call.proc.spawned) =>
        /\ call.out.t = "throw"
        /\ call.out.e = "YoutubeDLCLIExecError"

\* C17: every successful run returns a sequence of lines, none of them
\* empty, and getSubs on a successful run returns its files.
C17_SuccessReturnsNonEmptyLines ==
    /\ (RunDone /\ call.out.t # "throw") =>
        /\ call.out.t = "array"
        /\ \A i \in 1..Len(call.out.v) : call.out.v[i] # <<>>
    /\ (call.fn = "getSubs" /\ call.out # Pending /\ call.options = processOptions
        /\ call.proc.spawned /\ call.proc.exitCode = 0 /\ call.proc.stderr = "") =>
        call.out.t = "array"

\* ------------------------------------- YoutubeDLWrapper.getInfoForDownload

\* Every way the subprocess of a single-item metadata call can end: not
\* spawned, or finished with an exit code, a stderr text and at most one
\* printed record.
DownloadEnds ==
    {NotSpawned} \cup
    {[OkOut(lines) EXCEPT !.exitCode = code, !.stderr = err] :
        code \in {OKAY, 1, 2}, err \in {"", "ERROR"},
        lines \in {<<>>} \cup {<<r>> : r \in RawRecords}}

DownloadInit ==
    /\ SyncIdle
    /\ call \in [fn : {"getInfoForDownload"}, proc : DownloadEnds, out : {Pending}]

ApplyGetInfoForDownload ==
    /\ call.fn = "getInfoForDownload"
    /\ call.out = Pending
    /\ call' = [call EXCEPT !.out = getInfoForDownload(call.proc)]
    /\ UNCHANGED syncVars

DownloadNext == ApplyGetInfoForDownload

DownloadSpec == DownloadInit /\ [][DownloadNext]_vars

DownloadDone == call.fn = "getInfoForDownload" /\ call.out # Pending

\* The tool succeeded: it was spawned, exited with 0 and wrote nothing to
\* stderr.
ToolSucceeded(proc) == proc.spawned /\ proc.exitCode = OKAY /\ proc.stderr = ""

\* C16: getInfoForDownload hands the caller the error kind of the failed
\* subprocess (RetCodeError for a non-zero exit, CrashError for stderr text
\* with exit 0, ExecError for a failed spawn), and throws NoInfoError only
\* when the tool succeeded.
C16_DownloadSurfacesToolErrorKind ==
    DownloadDone =>
        /\ ~call.proc.spawned =>
            (call.out.t = "throw" /\ call.out.e = "YoutubeDLCLIExecError")
        /\ (call.proc.spawned /\ call.proc.exitCode # OKAY) =>
            (call.out.t = "throw" /\ call.out.e = "YoutubeDLCLIRetCodeError")
        /\ (call.proc.spawned /\ call.proc.exitCode = OKAY /\ call.proc.stderr # "") =>
            (call.out.t = "throw" /\ call.out.e = "YoutubeDLCLICrashError")
        /\ (call.out.t = "throw" /\ call.out.e = "YoutubeDLNoInfoError") =>
            ToolSucceeded(call.proc)

\* ------------------------------------ safeGet / updateYoutubeDLBinary

\* The longest release feed studied.
MaxReleases == 2

\* CONFIG.IMPORT.VIDEOS.HTTP.YOUTUBE_DL_RELEASE.NAME and .URL
releaseName == "yt-dlp"
releaseUrl == "YOUTUBE_DL_RELEASE.URL"

\* A release of the feed: its prerelease flag and the names of its assets.
Releases == [prerelease : BOOLEAN, assets : {{}, {"yt-dlp"}, {"yt-dlp.exe"}}]

\* What a fetch answers: the request fails, the answer is a binary payload,
\* or the answer is a text, which is a JSON feed or is not.
FeedResponses ==
    {[kind |-> k, feed |-> <<>>] : k \in {"failed", "binary", "garbage"}} \cup
    {[kind |-> "json", feed |-> f] : f \in SeqsUpTo(Releases, MaxReleases)}

AssetResponses == {"failed", "binary", "text"}

\* json.filter(release => release.prerelease === false)
stableReleases(json) == SelectSeq(json, LAMBDA release : release.prerelease = FALSE)

\* latest.assets.find(a => a.name === releaseName), <<>> when there is none
findAsset(release) ==
    IF releaseName \in release.assets THEN <<"browser_download_url">> ELSE <<>>

\* A handler that lets the error of the provisioning leave the function.
rethrowUpdateError(c, err) == [c EXCEPT !.pc = "done", !.out = Throw(err)]

\* catch (err) { logger.error('Cannot update youtube-dl from %s.', ...) }
\* after which updateYoutubeDLBinary ends and safeGet goes on.
catchUpdateError(c, err) == [c EXCEPT !.pc = "return", !.logged = Append(@, err)]

SafeGetInit ==
    /\ SyncIdle
    /\ call \in [fn : {"safeGet"},
                 pathExists : BOOLEAN,         \* the binary is on disk
                 ensureDir : BOOLEAN,          \* its directory can be made
                 feedResponse : FeedResponses,
                 assetResponse : AssetResponses,
                 writeFile : BOOLEAN,          \* the file can be written
                 pc : {"start"},
                 fetches : {<<>>},             \* the URLs fetched so far
                 gotResult : {"none"},         \* kind of the last response
                 writes : {0},                 \* calls of writeFile
                 written : {FALSE},            \* the binary is on disk now
                 logged : {<<>>},              \* errors logged by the handler
                 out : {Pending}]

\* if (!await pathExists(path)) { await ensureDir(dirname(path)); ... }
CheckBinary ==
    /\ call.fn = "safeGet" /\ call.pc = "start"
    /\ call' = IF call.pathExists THEN [call EXCEPT !.pc = "return", !.written = TRUE]
               ELSE IF call.ensureDir THEN [call EXCEPT !.pc = "fetchFeed"]
               ELSE [call EXCEPT !.pc = "done", !.out = Throw("EnsureDirError")]
    /\ UNCHANGED syncVars

\* gotResult = await peertubeGot(url, gotOptions), and for a response that is
\* not binary the choice of the asset in the parsed feed
FetchFeed ==
    /\ call.fn = "safeGet" /\ call.pc = "fetchFeed"
    /\ LET c == [call EXCEPT !.fetches = Append(@, releaseUrl),
                             !.gotResult = call.feedResponse.kind]
           kind == call.feedResponse.kind
           stable == stableReleases(call.feedResponse.feed)
       IN
       call' = IF kind = "failed"
               THEN catchUpdateError([c EXCEPT !.gotResult = "none"], "RequestError")
               ELSE IF kind = "binary" THEN [c EXCEPT !.pc = "writeFile"]
               ELSE IF kind = "garbage" THEN catchUpdateError(c, "SyntaxError")
               ELSE IF stable = <<>>
               THEN catchUpdateError(c, "Cannot find latest release")
               ELSE IF findAsset(stable[1]) = <<>>
               THEN catchUpdateError(c, "Cannot find appropriate release")
               ELSE [c EXCEPT !.pc = "fetchAsset"]
    /\ UNCHANGED syncVars

\* gotResult = await peertubeGot(releaseAsset.browser_download_url, ...) and
\* the second isBinaryResponse test
FetchAsset ==
    /\ call.fn = "safeGet" /\ call.pc = "fetchAsset"
    /\ LET c == [call EXCEPT !.fetches = Append(@, "browser_download_url")] IN
       call' = IF call.assetResponse = "failed" THEN catchUpdateError(c, "RequestError")
               ELSE IF call.assetResponse = "text"
               THEN catchUpdateError([c EXCEPT !.gotResult = "text"], "Not a binary response")
               ELSE [c EXCEPT !.gotResult = "binary", !.pc = "writeFile"]
    /\ UNCHANGED syncVars

\* await writeFile(youtubeDLBinaryPath, gotResult.body)
WriteFile ==
    /\ call.fn = "safeGet" /\ call.pc = "writeFile"
    /\ LET c == [call EXCEPT !.writes = @ + 1] IN
       call' = IF call.writeFile THEN [c EXCEPT !.written = TRUE, !.pc = "return"]
               ELSE catchUpdateError(c, "WriteError")
    /\ UNCHANGED syncVars

\* return new YoutubeDLCLI()
ReturnCLI ==
    /\ call.fn = "safeGet" /\ call.pc = "return"
    /\ call' = [call EXCEPT !.pc = "done", !.out = Val("YoutubeDLCLI")]
    /\ UNCHANGED syncVars

SafeGetNext ==
    \/ CheckBinary
    \/ FetchFeed
    \/ FetchAsset
    \/ WriteFile
    \/ ReturnCLI

SafeGetSpec == SafeGetInit /\ [][SafeGetNext]_vars

\* C18: with the binary absent and its directory in place, a provisioning
\* that fails at any step (feed fetch, no stable release, no asset of the
\* configured name, last response not binary, write) is logged and not
\* thrown, and safeGet returns a CLI instance; at most two fetches are issued,
\* the feed and then the asset; the file is written at most once and only
\* when the last response is a binary payload.
C18_ProvisioningNeverFatal ==
    (call.fn = "safeGet" /\ ~call.pathExists /\ call.ensureDir) =>
        /\ Len(call.fetches) <= 2
        /\ Len(call.fetches) >= 1 => call.fetches[1] = releaseUrl
        /\ Len(call.fetches) = 2 =>
            (call.fetches[2] = "browser_download_url" /\ call.feedResponse.kind = "json")
        /\ call.writes <= 1
        /\ call.writes = 1 => call.gotResult = "binary"
        /\ call.out # Pending =>
            /\ call.out = Val("YoutubeDLCLI")
            /\ Len(call.logged) <= 1
            /\ call.written <=> call.logged = <<>>
            /\ call.written =>
                /\ call.writeFile
                /\ \/ call.feedResponse.kind = "binary"
                   \/ call.assetResponse = "binary"

\* C18 witness: the feed named a stable release with the asset, the asset's
\* URL answered with a text, and safeGet returned an instance after two
\* fetches, one logged error and no write.
C18_Witness ==
    /\ call.fn = "safeGet"
    /\ ~call.pathExists
    /\ call.out = Val("YoutubeDLCLI")
    /\ Len(call.fetches) = 2
    /\ call.logged = <<"Not a binary response">>
    /\ call.writes = 0

\* ------------------------------------------------- getListInfo: the merge

\* The detailed pass of a two-item playlist: item i has URL i, and each of
\* its two timestamps is absent (0) or 1.
DetailedLists ==
    {<<[webpage_url |-> 1, timestamp |-> a[1], release_timestamp |-> a[2]],
       [webpage_url |-> 2, timestamp |-> a[3], release_timestamp |-> a[4]]>> :
        a \in [1..4 -> {0, 1}]}

\* The flat pass: two lines, of any URLs (repeated, or of no listed item) and
\* any timestamps.
FlatLists ==
    [1..2 -> [webpage_url : 1..MaxEntries, timestamp : Times, release_timestamp : Times]]

MergeInit ==
    /\ SyncIdle
    /\ call \in [fn : {"getListInfo"}, list : DetailedLists, flatList : FlatLists,
                 out : {Pending}]

\* getListInfo under yt-dlp, both subprocesses having succeeded.
ApplyGetListInfo ==
    /\ call.fn = "getListInfo"
    /\ call.out = Pending
    /\ call' = [call EXCEPT !.out = getListInfo(TRUE, OkOut(call.flatList), OkOut(call.list))]
    /\ UNCHANGED syncVars

MergeNext == ApplyGetListInfo

MergeSpec == MergeInit /\ [][MergeNext]_vars

MergeDone == call.fn = "getListInfo" /\ call.out # Pending

\* The flat lines of a URL, in the order of the flat pass.
FlatMatches(url) == SelectSeq(call.flatList, LAMBDA o : o.webpage_url = url)

\* C19: in the merged list every entry keeps its place and URL; its timestamp
\* is the flat pass's when the matching flat line has a strictly positive
\* one, and the detailed pass's otherwise (zero or absent flat value, or no
\* matching flat line); the same holds of release_timestamp, each field on
\* its own.
C19_MergeTakesOnlyPositiveFlatValues ==
    MergeDone =>
        /\ call.out.t = "array"
        /\ Len(call.out.v) = Len(call.list)
        /\ \A i \in 1..Len(call.list) :
            LET item == call.list[i]
                merged == call.out.v[i]
                m == FlatMatches(item.webpage_url)
            IN
            /\ merged.webpage_url = item.webpage_url
            /\ merged.timestamp =
                IF m # <<>> /\ m[1].timestamp > 0 THEN m[1].timestamp ELSE item.timestamp
            /\ merged.release_timestamp =
                IF m # <<>> /\ m[1].release_timestamp > 0
                THEN m[1].release_timestamp ELSE item.release_timestamp

\* C19 witness: the first entry had both timestamps at 1; its flat line gave
\* timestamp 2 and no release_timestamp, so the merged entry has timestamp 2
\* and still release_timestamp 1; the second entry had no flat line and is
\* unchanged.
C19_Witness ==
    /\ MergeDone
    /\ call.list[1].timestamp = 1 /\ call.list[1].release_timestamp = 1
    /\ call.flatList[1] = [webpage_url |-> 1, timestamp |-> 2, release_timestamp |-> 0]
    /\ call.flatList[2].webpage_url = 3
    /\ call.out.v[1].timestamp = 2 /\ call.out.v[1].release_timestamp = 1
    /\ call.out.v[2] = call.list[2]

\* ----------------------------------------------- canDoQuickAudioTranscode

\* Audio bitrates run in steps of 64000 bit/s up to this many steps; 0 is a
\* bitrate ffprobe did not report.
MaxBitrateSteps == 3

AudioBitrates == {k * 64000 : k \in 0..MaxBitrateSteps}

\* What getAudioStream reports: no audio stream, or a stream with its codec
\* name and channel layout ("" is an absent layout) and the bitrate.
NoAudio == [audioStream |-> <<>>, bitrate |-> 0]

ParsedAudios ==
    {NoAudio} \cup
    {[audioStream |-> <<[codec_name |-> c, channel_layout |-> l]>>, bitrate |-> b] :
        c \in {"aac", "mp3", "opus"},
        l \in {"", "unknown", "quad", "mono", "stereo", "5.1"},
        b \in AudioBitrates}

\* What getMaxAudioBitrate('aac', audioBitrate) answers: a bitrate, or -1 for
\* "no cap".
MaxAudioBitrates == {-1} \cup (AudioBitrates \ {0})

\* A verdict that accepts every channel layout.
canDoQuickAudioTranscodeAnyLayout(parsedAudio, maxAudioBitrate) ==
    IF parsedAudio.audioStream = <<>> THEN TRUE
    ELSE IF parsedAudio.audioStream[1].codec_name # "aac" THEN FALSE
    ELSE IF parsedAudio.bitrate = 0 THEN FALSE
    ELSE IF maxAudioBitrate # -1 /\ parsedAudio.bitrate > maxAudioBitrate THEN FALSE
    ELSE TRUE

\* canDoQuickAudioTranscode, given what getAudioStream and getMaxAudioBitrate
\* answer.
canDoQuickAudioTranscode(parsedAudio, maxAudioBitrate) ==
    IF parsedAudio.audioStream = <<>> THEN TRUE
    ELSE IF parsedAudio.audioStream[1].codec_name # "aac" THEN FALSE
    ELSE LET audioBitrate == parsedAudio.bitrate IN
         IF audioBitrate = 0 THEN FALSE
         ELSE IF maxAudioBitrate # -1 /\ audioBitrate > maxAudioBitrate THEN FALSE
         ELSE LET channelLayout == parsedAudio.audioStream[1].channel_layout IN
              IF channelLayout = "" \/ channelLayout = "unknown" \/ channelLayout = "quad"
              THEN FALSE
              ELSE TRUE

AudioInit ==
    /\ SyncIdle
    /\ call \in [fn : {"canDoQuickAudioTranscode"}, parsedAudio : ParsedAudios,
                 maxAudioBitrate : MaxAudioBitrates, out : {Pending}]

ApplyCanDoQuickAudioTranscode ==
    /\ call.fn = "canDoQuickAudioTranscode"
    /\ call.out = Pending
    /\ call' = [call EXCEPT !.out = Val(canDoQuickAudioTranscode(call.parsedAudio,
                                                                 call.maxAudioBitrate))]
    /\ UNCHANGED syncVars

AudioNext == ApplyCanDoQuickAudioTranscode

AudioSpec == AudioInit /\ [][AudioNext]_vars

AudioDone == call.fn = "canDoQuickAudioTranscode" /\ call.out # Pending

\* The stream is AAC with a known bitrate and a channel layout that is
\* present and neither 'unknown' nor 'quad'.
AcceptableAacStream(parsedAudio) ==
    /\ parsedAudio.audioStream[1].codec_name = "aac"
    /\ parsedAudio.bitrate # 0
    /\ parsedAudio.audioStream[1].channel_layout \notin {"", "unknown", "quad"}

\* C20 as stated: the verdict is true exactly when there is no audio stream,
\* or the stream is AAC with a known bitrate that does not exceed the maximum
\* AAC bitrate and with a channel layout that is present and neither
\* 'unknown' nor 'quad'.
C20_QuickAudioIffWithinMaximum ==
    AudioDone =>
        (call.out.v <=>
            \/ call.parsedAudio.audioStream = <<>>
            \/ /\ AcceptableAacStream(call.parsedAudio)
               /\ call.parsedAudio.bitrate <= call.maxAudioBitrate)

\* C20 amended: as stated, except that the bitrate is held against the
\* maximum only when the maximum is not -1; a maximum of -1 caps nothing.
C20_QuickAudioIffWithinMaximumUnlessUncapped ==
    AudioDone =>
        (call.out.v <=>
            \/ call.parsedAudio.audioStream = <<>>
            \/ /\ AcceptableAacStream(call.parsedAudio)
               /\ \/ call.maxAudioBitrate = -1
                  \/ call.parsedAudio.bitrate <= call.maxAudioBitrate)

\* C20 witness: aac at 128000 in stereo, with no cap on the bitrate (the
\* maximum is -1), is accepted.
C20_Witness ==
    /\ AudioDone
    /\ call.parsedAudio = [audioStream |-> <<[codec_name |-> "aac", channel_layout |-> "stereo"]>>,
                           bitrate |-> 128000]
    /\ call.maxAudioBitrate = -1
    /\ call.out.v = TRUE

\* ---------------------------------------------------------------------------
\* Quick video transcode verdict (packages/ffmpeg/src/ffmpeg-hwenc.ts)
\* ---------------------------------------------------------------------------

MaxFps == 70

MaxVideoBitrateSteps == 3

\* What getVideoStreamBitrate reports; 0 stands for every falsy answer
\* (the bitrate ffprobe could not guess).
VideoBitrates == {k * 1000000 : k \in 0..MaxVideoBitrateSteps}

\* What getVideoStream reports: no video stream, or a stream with its codec
\* name and pixel format.
VideoStreams ==
    {<<>>} \cup
    {<<[codec_name |-> c, pix_fmt |-> p]>> :
        c \in {"h264", "hevc", "vp9"},
        p \in {"yuv420p", "yuv422p", "yuv420p10le"}}

\* What getVideoStreamFPS reports.
Fpss == 0..MaxFps

\* What getMaxTheoreticalBitrate({ ...resolutionData, fps }) answers.
MaxTheoreticalBitrates == VideoBitrates \ {0}

\* A verdict that also rejects a bitrate equal to the maximum.
canDoQuickVideoTranscodeBelowMaximum(videoStream, fps, bitRate, maxTheoreticalBitrate) ==
    IF bitRate = 0 THEN FALSE
    ELSE IF videoStream = <<>> THEN FALSE
    ELSE IF videoStream[1].codec_name # "h264" THEN FALSE
    ELSE IF videoStream[1].pix_fmt # "yuv420p" THEN FALSE
    ELSE IF fps < 2 \/ fps > 65 THEN FALSE
    ELSE IF bitRate >= maxTheoreticalBitrate THEN FALSE
    ELSE TRUE

\* canDoQuickVideoTranscode, given what the stream probes and
\* getMaxTheoreticalBitrate answer.
canDoQuickVideoTranscode(videoStream, fps, bitRate, maxTheoreticalBitrate) ==
    IF bitRate = 0 THEN FALSE
    ELSE IF videoStream = <<>> THEN FALSE
    ELSE IF videoStream[1].codec_name # "h264" THEN FALSE
    ELSE IF videoStream[1].pix_fmt # "yuv420p" THEN FALSE
    ELSE IF fps < 2 \/ fps > 65 THEN FALSE
    ELSE IF bitRate > maxTheoreticalBitrate THEN FALSE
    ELSE TRUE

VideoInit ==
    /\ SyncIdle
    /\ call \in [fn : {"canDoQuickVideoTranscode"}, videoStream : VideoStreams,
                 fps : Fpss, bitRate : VideoBitrates,
                 maxTheoreticalBitrate : MaxTheoreticalBitrates, out : {Pending}]

ApplyCanDoQuickVideoTranscode ==
    /\ call.fn = "canDoQuickVideoTranscode"
    /\ call.out = Pending
    /\ call' = [call EXCEPT !.out = Val(canDoQuickVideoTranscode(call.videoStream, call.fps,
                                                                 call.bitRate,
                                                                 call.maxTheoreticalBitrate))]
    /\ UNCHANGED syncVars

VideoNext == ApplyCanDoQuickVideoTranscode

VideoSpec == VideoInit /\ [][VideoNext]_vars

VideoDone == call.fn = "canDoQuickVideoTranscode" /\ call.out # Pending

\* C21: the verdict is true exactly when a video stream exists, its bitrate
\* is known, its codec is 'h264', its pixel format is 'yuv420p', its fps lies
\* in 2..65 and its bitrate does not exceed the maximum theoretical bitrate;
\* a bitrate equal to that maximum is accepted.
C21_QuickVideoIffAllChecksPass ==
    VideoDone =>
        (call.out.v <=>
            /\ call.videoStream # <<>>
            /\ call.bitRate # 0
            /\ call.videoStream[1].codec_name = "h264"
            /\ call.videoStream[1].pix_fmt = "yuv420p"
            /\ 2 <= call.fps /\ call.fps <= 65
            /\ call.bitRate <= call.maxTheoreticalBitrate)

\* C21 witness: an h264 / yuv420p stream at 65 fps whose bitrate equals the
\* maximum theoretical bitrate is accepted.
C21_Witness ==
    /\ VideoDone
    /\ call.videoStream = <<[codec_name |-> "h264", pix_fmt |-> "yuv420p"]>>
    /\ call.fps = 65
    /\ call.bitRate = call.maxTheoreticalBitrate
    /\ call.out.v = TRUE

\* ---------------------------------------------------------------------------
\* Target bitrate (packages/ffmpeg/src/ffmpeg-hwenc.ts)
\* ---------------------------------------------------------------------------

MaxTargetBitrateSteps == 5

\* Bitrates in bits per second; every one is a multiple of 10, so that the
\* 30% margin of capBitrate is a whole number.
TargetBitrates == {k * 500000 : k \in 0..MaxTargetBitrateSteps}

\* options.inputBitrate: absent, or a number (0 included).
InputBitrates == {<<>>} \cup {<<b>> : b \in TargetBitrates}

\* What getAverageTheoreticalBitrate and getMinTheoreticalBitrate answer for
\* one resolution / fps / ratio: the minimum is never above the average.
TheoreticalBitrates ==
    {t \in [average : TargetBitrates, min : TargetBitrates] : t.min <= t.average}

\* A cap that ignores the input bitrate.
capBitrateUncapped(inputBitrate, targetBitrate) == targetBitrate

capBitrate(inputBitrate, targetBitrate) ==
    IF inputBitrate = <<>> \/ inputBitrate[1] = 0 THEN targetBitrate
    ELSE LET inputBitrateWithMargin == inputBitrate[1] + (inputBitrate[1] * 3) \div 10
         IN  MathMin({targetBitrate, inputBitrateWithMargin})

\* A target bitrate that is not held above the minimum.
getTargetBitrateNoLimit(inputBitrate, theoretical) ==
    capBitrate(inputBitrate, theoretical.average)

\* getTargetBitrate, given what the theoretical-bitrate functions answer for
\* the options' resolution, fps and ratio.
getTargetBitrate(inputBitrate, theoretical) ==
    LET capped == capBitrate(inputBitrate, theoretical.average)
        limit  == theoretical.min
    IN  MathMax({limit, capped})

TargetInit ==
    /\ SyncIdle
    /\ call \in [fn : {"getTargetBitrate"}, inputBitrate : InputBitrates,
                 theoretical : TheoreticalBitrates, out : {Pending}]

ApplyGetTargetBitrate ==
    /\ call.fn = "getTargetBitrate"
    /\ call.out = Pending
    /\ call' = [call EXCEPT !.out = Val(getTargetBitrate(call.inputBitrate, call.theoretical))]
    /\ UNCHANGED syncVars

TargetNext == ApplyGetTargetBitrate

TargetSpec == TargetInit /\ [][TargetNext]_vars

TargetDone == call.fn = "getTargetBitrate" /\ call.out # Pending

\* An input bitrate is supplied and positive.
InputKnown == call.inputBitrate # <<>> /\ call.inputBitrate[1] > 0

\* C22: the target bitrate lies between the minimum and the average
\* theoretical bitrate, and when no input bitrate is known (absent or 0) it
\* is exactly the average.
C22_TargetBetweenFloorAndAverage ==
    TargetDone =>
        /\ call.theoretical.min <= call.out.v
        /\ call.out.v <= call.theoretical.average
        /\ (call.inputBitrate = <<>> \/ call.inputBitrate[1] = 0)
               => call.out.v = call.theoretical.average

\* C22 witness: an input of 1000000 between a minimum of 500000 and an
\* average of 2000000 gives 1300000, strictly between the two.
C22_Witness ==
    /\ TargetDone
    /\ call.inputBitrate = <<1000000>>
    /\ call.theoretical = [average |-> 2000000, min |-> 500000]
    /\ call.out.v = 1300000

\* C23 as stated: with a positive input bitrate the target bitrate is at
\* most 1.3 times the input bitrate.
C23_TargetAtMostInputWithMargin ==
    (TargetDone /\ InputKnown) =>
        10 * call.out.v <= 13 * call.inputBitrate[1]

\* C23 amended: with a positive input bitrate the target bitrate is at most
\* the larger of the minimum theoretical bitrate and 1.3 times the input
\* bitrate.
C23_TargetAtMostInputWithMarginOrFloor ==
    (TargetDone /\ InputKnown) =>
        \/ 10 * call.out.v <= 13 * call.inputBitrate[1]
        \/ call.out.v <= call.theoretical.min

\* C23 witness: an input of 500000 under a minimum of 1000000 gives the
\* minimum, above 1.3 times the input.
C23_Witness ==
    /\ TargetDone
    /\ call.inputBitrate = <<500000>>
    /\ call.theoretical.min = 1000000
    /\ call.out.v = 1000000

\* ---------------------------------------------------------------------------
\* Live streams (part_002 getInfoForDownload, youtube-dl-info-builder.ts)
\* ---------------------------------------------------------------------------

\* Raw extraction records that carry the tool's is_live field.
LiveRawRecords ==
    [webpage_url : 1..MaxEntries, upload_date : OptDays, formats : {0, 1},
     is_live : {"true", "false", "null"}]

\* The tool succeeded and printed one such record.
LiveInit ==
    /\ SyncIdle
    /\ call \in {[fn |-> "getInfoForDownload", proc |-> OkOut(<<r>>), out |-> Pending] :
                    r \in LiveRawRecords}

LiveNext == ApplyGetInfoForDownload

LiveSpec == LiveInit /\ [][LiveNext]_vars

\* The record the tool printed.
RawRecord == call.proc.stdout[1]

\* C24: when the raw extraction record reports a live stream,
\* getInfoForDownload fails with YoutubeDLIsLiveError and returns no
\* metadata.
C24_LiveStreamGivesIsLiveError ==
    (DownloadDone /\ RawRecord.is_live = "true") =>
        (call.out.t = "throw" /\ call.out.e = "YoutubeDLIsLiveError")

\* ---------------------------------------------------------------------------
\* Title normalisation (youtube-dl-info-builder.ts)
\* ---------------------------------------------------------------------------

\* The longest raw title studied.
MaxTitleLen == 8

\* A title is the sequence of its characters: a letter, a comma or a space.
TitleChars == {"a", ",", " "}

Titles == SeqsUpTo(TitleChars, MaxTitleLen)

\* CONSTRAINTS_FIELDS.VIDEOS.NAME (initializers/constants): the minimum is
\* above the two characters of 'Hi'; the maximum is shortened so that the
\* studied titles get truncated.
NAME == [min |-> 3, max |-> 6]

\* ' [...]', where "..." stands for the one-character ellipsis.
omission == <<" ", "[", "...", "]">>

\* ' video'
filler == <<" ", "v", "i", "d", "e", "o">>

\* Where a match of the separator /,? +/ starts in a text: at a comma that a
\* space follows, or at the first space of a run no comma precedes.
SeparatorStarts(text) ==
    {i \in 1..Len(text) :
        \/ text[i] = "," /\ i < Len(text) /\ text[i + 1] = " "
        \/ text[i] = " " /\ (i = 1 \/ text[i - 1] \notin {" ", ","})}

\* peertubeTruncate(str, { length, separator: /,? +/, omission }): a text
\* within the length is kept; a longer one is cut to leave room for the
\* omission, cut back to the last separator unless the cut already falls on
\* one, and given the omission.
peertubeTruncate(str, options) ==
    IF Len(str) <= options.length THEN str
    ELSE CHOOSE truncated \in
        {IF (end + 1) \in SeparatorStarts(str) \/ SeparatorStarts(SubSeq(str, 1, end)) = {}
         THEN SubSeq(str, 1, end) \o options.omission
         ELSE SubSeq(str, 1, MathMax(SeparatorStarts(SubSeq(str, 1, end))) - 1)
                  \o options.omission
         : end \in {options.length - Len(options.omission)}} : TRUE

\* YoutubeDLInfoBuilder.titleTruncation
titleTruncation(title) ==
    peertubeTruncate(title, [length |-> NAME.max, omission |-> omission])

\* YoutubeDLInfoBuilder.getInfo, the name it gives: the truncated title,
\* with the filler when it is a non-empty text shorter than the minimum.
YoutubeDLInfoBuilder_getInfo(title) ==
    CHOOSE named \in
        {IF name # <<>> /\ Len(name) < NAME.min THEN name \o filler ELSE name
         : name \in {titleTruncation(title)}} : TRUE

TitleInit ==
    /\ SyncIdle
    /\ call \in [fn : {"YoutubeDLInfoBuilder.getInfo"}, title : Titles, out : {Pending}]

ApplyBuilderGetInfo ==
    /\ call.fn = "YoutubeDLInfoBuilder.getInfo"
    /\ call.out = Pending
    /\ call' = [call EXCEPT !.out = Val(YoutubeDLInfoBuilder_getInfo(call.title))]
    /\ UNCHANGED syncVars

TitleNext == ApplyBuilderGetInfo

TitleSpec == TitleInit /\ [][TitleNext]_vars

TitleDone == call.fn = "YoutubeDLInfoBuilder.getInfo" /\ call.out # Pending

\* C25: a title that is, after truncation, shorter than the minimum name
\* length (the empty title included) gets the filler ' video' appended, and
\* a title of at least the minimum length is returned without it.
C25_ShortTitleGetsFiller ==
    TitleDone =>
        /\ Len(titleTruncation(call.title)) < NAME.min
               => call.out.v = titleTruncation(call.title) \o filler
        /\ Len(titleTruncation(call.title)) >= NAME.min
               => call.out.v = titleTruncation(call.title)

\* ---------------------------------------------------------------------------
\* Channel listing of any size (part_002 getInfoForListImport)
\* ---------------------------------------------------------------------------

\* The listed items: at least one, each with its release timestamp.
NonEmptyListings == {l \in TimedListings : Len(l) >= 1}

\* The detailed pass of a listing: the same items, without the timestamps.
PlainListing(items) == [i \in 1..Len(items) |-> ListLine(i, 0)]

ListInit ==
    /\ SyncIdle
    /\ call \in [fn : {"getInfoForListImport"}, ytdlp : BOOLEAN, items : NonEmptyListings,
                 now : Times, out : {Pending}]

\* getInfoForListImport, both subprocesses having succeeded: the flat pass
\* printed one line per item with its timestamps, the detailed pass one line
\* per item.
ApplyGetInfoForListImport ==
    /\ call.fn = "getInfoForListImport"
    /\ call.out = Pending
    /\ call' = [call EXCEPT !.out = getInfoForListImport(call.ytdlp, OkOut(call.items),
                                                         OkOut(PlainListing(call.items)),
                                                         call.now)]
    /\ UNCHANGED syncVars

ListNext == ApplyGetInfoForListImport

ListSpec == ListInit /\ [][ListNext]_vars

ListDone == call.fn = "getInfoForListImport" /\ call.out # Pending

\* The listed items that are not known to be future premieres, in listing
\* order (without yt-dlp no release timestamp is known).
NotFuturePremieres ==
    SelectSeq(call.items, LAMBDA item : ~(call.ytdlp /\ item.release_timestamp > call.now))

\* C26: for a listing of any size n >= 1, getInfoForListImport returns the
\* ordered sequence of the listed items that are not future premieres; a
\* one-line listing yields a sequence (of at most one entry) and no failure.
C26_ListingOfAnySizeReturnsSequence ==
    ListDone =>
        /\ call.out.t = "array"
        /\ call.out.v = [i \in 1..Len(NotFuturePremieres) |-> NotFuturePremieres[i].webpage_url]

====
